---- MODULE Spec2Model ----
(***************************************************************************)
(* Model of the dual-subtitle merge engine (class SubMerger) as found in   *)
(* src/sub-merger.py and, in a second variant, embedded in                 *)
(* src/dual-subtitle-burner.py.                                            *)
(*                                                                         *)
(* An ASS event line is a record of its comma separated fields; the Text   *)
(* field is a sequence of items, each either a run of glyphs or an         *)
(* override block "{\tag\tag...}" holding a sequence of tags.  The regular *)
(* expressions of the code are modelled by what they match on this         *)
(* structure (first tag of a block, any tag of a block, first occurrence   *)
(* in the text, letter case).                                              *)
(***************************************************************************)
EXTENDS Integers, Sequences, FiniteSets, TLC

\* ------------------------------------------------------------------ bounds
\* longest top-track event list of the plain (dedup / split) input family
MaxTopLen == 3
\* longest bottom-track event list
MaxBottomLen == 2
\* largest hour field of the times given to the time codec
MaxHour == 11
\* interval end points given to _overlaps are 10 * (-MaxPoint .. MaxPoint)
MaxPoint == 2
\* longest event list given to _split_events_on_points on its own
MaxSplitLen == 2
\* longest event list given to _create_top_style_map on its own
MaxTallyLen == 4
\* largest number of jobs of a batch
MaxJobs == 2
\* largest number of calls of BatchWorker.cancel during a batch
MaxCancelCalls == 1

\* --------------------------------------------------------------- constants
\* horizontal midline of the 1080 canvas used by the frame-half test
HalfFrame == 540
\* number of comma separated fields of a complete event line (split(",", 9))
EventFields == 10
\* first magnitude that "{:g}" no longer prints with all its digits
GPrecisionLimit == 1000000

\* ------------------------------------------------------------ small helpers
Max(a, b) == IF a >= b THEN a ELSE b
Min(a, b) == IF a <= b THEN a ELSE b

RECURSIVE SortedSeq(_)
\* sorted(set): ascending sequence of the elements of a finite set of ints
SortedSeq(S) ==
    IF S = {} THEN <<>>
    ELSE LET m == CHOOSE x \in S : \A y \in S : x <= y
         IN  <<m>> \o SortedSeq(S \ {m})

RECURSIVE Flatten(_)
\* concatenation of a sequence of sequences
Flatten(ss) == IF ss = <<>> THEN <<>> ELSE Head(ss) \o Flatten(Tail(ss))

\* ------------------------------------------------------------- time codec
\* the text "H:MM:SS.CC"; ok = FALSE stands for a field that does not have
\* this shape (split/unpack or int() raises ValueError)
TimeText(h, m, s, cs) == [h |-> h, m |-> m, s |-> s, cs |-> cs, ok |-> TRUE]
BadTime == [h |-> 0, m |-> 0, s |-> 0, cs |-> 0, ok |-> FALSE]

AssTimeRaises(t) == ~t.ok

\* the centisecond field taken as milliseconds
AssTimeToMsUnscaled(t) == (t.h * 3600 + t.m * 60 + t.s) * 1000 + t.cs

AssTimeToMs(t) == (t.h * 3600 + t.m * 60 + t.s) * 1000 + t.cs * 10

MsToAssTime(ms) ==
    LET h  == ms \div 3600000
        r1 == ms % 3600000
        m  == r1 \div 60000
        r2 == r1 % 60000
        s  == r2 \div 1000
        r3 == r2 % 1000
    IN  TimeText(h, m, s, r3 \div 10)

OverlapsClosed(a_start, a_end, b_start, b_end) ==
    Max(a_start, b_start) <= Min(a_end, b_end)

Overlaps(a_start, a_end, b_start, b_end) ==
    Max(a_start, b_start) < Min(a_end, b_end)

\* --------------------------------------------- time text, character level
\* the characters of a time field: decimal digits, ":" and "."
DigitChars == <<"0", "1", "2", "3", "4", "5", "6", "7", "8", "9">>

RECURSIVE Digits(_)
\* str(n) for n >= 0
Digits(n) ==
    IF n < 10 THEN <<DigitChars[n + 1]>>
    ELSE Digits(n \div 10) \o <<DigitChars[(n % 10) + 1]>>

\* f"{n:02}": zero padded to at least two digits
Pad2(n) == IF n < 10 THEN <<"0">> \o Digits(n) ELSE Digits(n)

\* f"{h:01}:{m:02}:{s:02}.{cs:02}" of line 22
FormatFields(t) ==
    Digits(t.h) \o <<":">> \o Pad2(t.m) \o <<":">> \o Pad2(t.s) \o <<".">> \o Pad2(t.cs)

RECURSIVE SplitOn(_, _)
\* str.split(sep)
SplitOn(chars, sep) ==
    IF \A i \in 1..Len(chars) : chars[i] # sep THEN <<chars>>
    ELSE LET k == CHOOSE i \in 1..Len(chars) :
                    chars[i] = sep /\ \A j \in 1..(i - 1) : chars[j] # sep
         IN  <<SubSeq(chars, 1, k - 1)>> \o SplitOn(SubSeq(chars, k + 1, Len(chars)), sep)

\* int() accepts a non-empty run of decimal digits
IsNumeral(chars) ==
    /\ Len(chars) > 0
    /\ \A i \in 1..Len(chars) : \E d \in 1..10 : DigitChars[d] = chars[i]

RECURSIVE IntOf(_)
IntOf(chars) ==
    IF chars = <<>> THEN 0
    ELSE LET last == chars[Len(chars)]
             d == CHOOSE v \in 0..9 : DigitChars[v + 1] = last
         IN  IntOf(SubSeq(chars, 1, Len(chars) - 1)) * 10 + d

\* h, m, s_cs = t.split(":"); s, cs = s_cs.split("."); int() of each part
ParseFields(chars) ==
    LET a == SplitOn(chars, ":")
        b == IF Len(a) = 3 THEN SplitOn(a[3], ".") ELSE <<>>
    IN  IF /\ Len(a) = 3 /\ Len(b) = 2
           /\ IsNumeral(a[1]) /\ IsNumeral(a[2]) /\ IsNumeral(b[1]) /\ IsNumeral(b[2])
        THEN TimeText(IntOf(a[1]), IntOf(a[2]), IntOf(b[1]), IntOf(b[2]))
        ELSE BadTime

\* ------------------------------------------------------ override-tag text
Tag(n, a) == [t |-> n, a |-> a]
Block(tags) == [blk |-> TRUE, tags |-> tags, lit |-> ""]
Lit(s) == [blk |-> FALSE, tags |-> <<>>, lit |-> s]

\* str.lower() on the tag names that occur in the inputs
LowerTag(n) == IF n = "POS" THEN "pos" ELSE n

\* glyph runs that contain the word "template" in some letter case
TemplateLits == {"Template line"}

\* all tags of the text in reading order
AllTags(text) == Flatten([i \in 1..Len(text) |-> text[i].tags])

\* (?:pos|move|org|an\d)\b directly after "{\", IGNORECASE
IsPositioningHead(tag) ==
    \/ LowerTag(tag.t) \in {"pos", "move", "org"}
    \/ LowerTag(tag.t) = "an" /\ Len(tag.a) = 1 /\ tag.a[1] \in 0..9

HasExplicitPositioning(text) ==
    \E i \in 1..Len(text) :
        /\ text[i].blk
        /\ Len(text[i].tags) > 0
        /\ IsPositioningHead(text[i].tags[1])

\* index of the first tag named n (case sensitive) in a tag sequence, 0 if none
FirstTag(tags, n) ==
    IF \E i \in 1..Len(tags) : tags[i].t = n
    THEN CHOOSE i \in 1..Len(tags) :
            tags[i].t = n /\ \A j \in 1..(i - 1) : tags[j].t # n
    ELSE 0

IsTopAligned(text) ==
    LET tags == AllTags(text)
        p == FirstTag(tags, "pos")
        m == FirstTag(tags, "move")
        a == FirstTag(tags, "an")
    IN  IF p > 0 /\ Len(tags[p].a) >= 2 THEN tags[p].a[2] < HalfFrame
        ELSE IF m > 0 /\ Len(tags[m].a) >= 4
             THEN tags[m].a[2] < HalfFrame /\ tags[m].a[4] < HalfFrame
        ELSE IF a > 0 THEN tags[a].a[1] >= 7 \/ (4 <= tags[a].a[1] /\ tags[a].a[1] <= 6)
        ELSE FALSE

\* the number printed by f"{v:g}" for an integral v below ten million:
\* six significant digits, ties to even
FmtG(v) ==
    IF v < GPrecisionLimit THEN v
    ELSE LET q == v \div 10
             r == v % 10
         IN  IF r < 5 THEN q * 10
             ELSE IF r > 5 THEN (q + 1) * 10
             ELSE IF q % 2 = 0 THEN q * 10 ELSE (q + 1) * 10

\* str(int(v)) of the embedded engine
FmtInt(v) == v

fix_an(n, to_top) ==
    IF to_top
    THEN IF n <= 3 THEN n + 6 ELSE IF n <= 6 THEN n + 3 ELSE n
    ELSE IF n >= 7 THEN n - 6 ELSE IF n >= 4 THEN n - 3 ELSE n

\* the +-540 rule shared by fix_pos and fix_move
ShiftY(y, to_top) ==
    IF to_top /\ y > HalfFrame THEN y - HalfFrame
    ELSE IF ~to_top /\ y < HalfFrame THEN y + HalfFrame
    ELSE y

fix_pos(a, to_top, eng) ==
    IF eng = "merger"
    THEN <<FmtG(a[1]), FmtG(ShiftY(a[2], to_top))>>
    ELSE <<FmtInt(a[1]), FmtInt(ShiftY(a[2], to_top))>>

fix_move(a, to_top, eng) ==
    LET rest == SubSeq(a, 5, Len(a))
    IN  IF eng = "merger"
        THEN <<FmtG(a[1]), FmtG(ShiftY(a[2], to_top)),
               FmtG(a[3]), FmtG(ShiftY(a[4], to_top))>> \o rest
        ELSE <<FmtInt(a[1]), FmtInt(ShiftY(a[2], to_top)),
               FmtInt(a[3]), FmtInt(ShiftY(a[4], to_top))>> \o rest

\* fix_pos / fix_move unpack two / four coordinates: ValueError if fewer
ForceRaises(text) ==
    \E i \in 1..Len(AllTags(text)) :
        LET tg == AllTags(text)[i]
        IN  \/ tg.t = "pos" /\ Len(tg.a) < 2
            \/ tg.t = "move" /\ Len(tg.a) < 4

ForceTag(tg, to_top, eng) ==
    IF tg.t = "an" THEN Tag("an", <<fix_an(tg.a[1], to_top)>>)
    ELSE IF tg.t = "pos" THEN Tag("pos", fix_pos(tg.a, to_top, eng))
    ELSE IF tg.t = "move" THEN Tag("move", fix_move(tg.a, to_top, eng))
    ELSE tg

ForceVerticalRegion(text, to_top, eng) ==
    [i \in 1..Len(text) |->
        [text[i] EXCEPT !.tags =
            [j \in 1..Len(text[i].tags) |-> ForceTag(text[i].tags[j], to_top, eng)]]]

EnsureTopPosition(text, eng) == ForceVerticalRegion(text, TRUE, eng)
EnsureBottomPosition(text, eng) == ForceVerticalRegion(text, FALSE, eng)

\* \{\\[^\}]*?org[^\}]*\}  IGNORECASE: every block that holds "org" goes whole
HasOrg(item) ==
    item.blk /\ \E j \in 1..Len(item.tags) : LowerTag(item.tags[j].t) = "org"
NotHasOrg(item) == ~HasOrg(item)
OrgStripper(text) == SelectSeq(text, NotHasOrg)

\* \{\\[^\}]*?(?:an|pos|move|org)[^\}]*\}  IGNORECASE
HasPosishTag(item) ==
    item.blk /\ \E j \in 1..Len(item.tags) :
                    LowerTag(item.tags[j].t) \in {"an", "pos", "move", "org"}
NotHasPosishTag(item) == ~HasPosishTag(item)
TagStripper(text) == SelectSeq(text, NotHasPosishTag)

\* re.search(r"\{\\k\d", text): a block that opens with \k<digit>
HasKaraokeHead(text) ==
    \E i \in 1..Len(text) :
        text[i].blk /\ Len(text[i].tags) > 0 /\ text[i].tags[1].t = "k"

is_karaoke_or_template(effect, text) ==
    \/ effect # ""
    \/ HasKaraokeHead(text)
    \/ \E i \in 1..Len(text) : ~text[i].blk /\ text[i].lit \in TemplateLits

\* text.strip().startswith("{\\an8}")
StartsWithAn8(text) ==
    Len(text) > 0 /\ text[1].blk /\ text[1].tags = <<Tag("an", <<8>>)>>

\* ------------------------------------------------------------------ events
\* one "Dialogue:" / "Comment:" line after split(",", 9); nf is the number of
\* fields the split yields (fewer than EventFields for a truncated line)
Ev(kind, s, e, style, effect, text) ==
    [kind |-> kind, start |-> s, end |-> e, style |-> style,
     effect |-> effect, text |-> text, nf |-> EventFields]

\* a truncated line "Dialogue: 0,0:00:01.00": two fields only
ShortLine ==
    [kind |-> "Dialogue", start |-> TimeText(0, 0, 1, 0), end |-> BadTime,
     style |-> "", effect |-> "", text |-> <<>>, nf |-> 2]

IsDialogue(e) == e.kind = "Dialogue"
StartMs(e) == AssTimeToMs(e.start)
EndMs(e) == AssTimeToMs(e.end)

\* str.casefold() on the style names that occur in the inputs
Casefold(st) ==
    CASE st = "Sub-CN" -> "sub-cn"
      [] st = "Default" -> "default"
      [] st = "Top" -> "top"
      [] st = "Sign" -> "sign"
      [] OTHER -> st

\* dict.get(key, default)
MapGet(m, k, default) == IF k \in DOMAIN m THEN m[k] ELSE default

\* ------------------------------------------------------------------ styles
MasterStyles ==
    {"Top-Primary", "Top-Secondary", "Bottom-Primary-Normal",
     "Bottom-Primary-Raised", "Bottom-Secondary"}

known_primary == {"Default"}

\* only the first of the secondary names is known
known_secondaryItalicsOnly == {"Italics"}

known_secondary == {"Italics", "On Top Italic", "On Top", "OS"}

\* l.split(",", 9)[3] of a Dialogue line raises IndexError on a truncated line
CreateTopStyleMapRaises(original_styles, events) ==
    /\ original_styles \cap (known_primary \cup known_secondary) = {}
    /\ \E i \in 1..Len(events) : IsDialogue(events[i]) /\ events[i].nf < 4

CreateTopStyleMap(original_styles, events) ==
    LET named == [n \in original_styles \cap (known_primary \cup known_secondary) |->
                    IF n \in known_primary THEN "Top-Primary" ELSE "Top-Secondary"]
        dlg == SelectSeq(events, IsDialogue)
        names == {dlg[i].style : i \in 1..Len(dlg)}
        Count(n) == Cardinality({i \in 1..Len(dlg) : dlg[i].style = n})
        First(n) == CHOOSE i \in 1..Len(dlg) :
                        dlg[i].style = n /\ \A j \in 1..(i - 1) : dlg[j].style # n
        \* Counter.most_common: by count, ties in order of first occurrence
        Before(a, b) == Count(a) > Count(b) \/ (Count(a) = Count(b) /\ First(a) < First(b))
        primary == CHOOSE n \in names : \A o \in names \ {n} : Before(n, o)
        rest == names \ {primary}
        sec == CHOOSE n \in rest : \A o \in rest \ {n} : Before(n, o)
    IN  IF DOMAIN named # {} THEN named
        ELSE IF names = {} THEN named
        ELSE IF rest = {} THEN [n \in {primary} |-> "Top-Primary"]
        ELSE [n \in {primary, sec} |->
                IF n = primary THEN "Top-Primary" ELSE "Top-Secondary"]

\* ------------------------------------------------------- splitting (top)
CollectChangePoints(events, role, style_map) ==
    UNION {{StartMs(events[i]), EndMs(events[i])} :
            i \in {j \in 1..Len(events) : MapGet(style_map, events[j].style, "None") = role}}

\* every piece keeps the end of the cue it was cut from
SplitOneStartOnly(ev, points) ==
    LET s == StartMs(ev)
        e == EndMs(ev)
        cuts == SortedSeq({s, e} \cup {p \in points : s < p /\ p < e})
    IN  IF Len(cuts) = 2 THEN <<ev>>
        ELSE [i \in 1..(Len(cuts) - 1) |-> [ev EXCEPT !.start = MsToAssTime(cuts[i])]]

SplitOne(ev, points) ==
    LET s == StartMs(ev)
        e == EndMs(ev)
        cuts == SortedSeq({s, e} \cup {p \in points : s < p /\ p < e})
    IN  IF Len(cuts) = 2 THEN <<ev>>
        ELSE [i \in 1..(Len(cuts) - 1) |->
                [ev EXCEPT !.start = MsToAssTime(cuts[i]),
                           !.end = MsToAssTime(cuts[i + 1])]]

SplitEventsOnPoints(events, points, role, style_map) ==
    IF points = {} THEN events
    ELSE Flatten([i \in 1..Len(events) |->
            IF MapGet(style_map, events[i].style, "None") = role
            THEN SplitOne(events[i], points)
            ELSE <<events[i]>>])

\* ------------------------------------------------------ top normalization
RECURSIVE FirstSeen(_, _)
\* the bucket keys in the order in which they are first met
FirstSeen(keys, seen) ==
    IF keys = <<>> THEN <<>>
    ELSE IF Head(keys) \in seen THEN FirstSeen(Tail(keys), seen)
    ELSE <<Head(keys)>> \o FirstSeen(Tail(keys), seen \cup {Head(keys)})

Key(ev) == <<StartMs(ev), EndMs(ev)>>

\* keep.append(first); the later ones of the same role become Comment lines
DemoteRestNone(ps) == ps

DemoteRest(ps) ==
    [i \in 1..Len(ps) |-> IF i = 1 THEN ps[i] ELSE [ps[i] EXCEPT !.kind = "Comment"]]

\* lines 294-306 (sub-merger.py) / 323-332 (dual-subtitle-burner.py)
PositionTop(p, style_map, eng) ==
    IF HasExplicitPositioning(p.text)
    THEN IF eng = "merger" /\ IsTopAligned(p.text)
         THEN [p EXCEPT !.text = OrgStripper(p.text)]
         ELSE [p EXCEPT !.text = OrgStripper(EnsureTopPosition(p.text, eng))]
    ELSE [p EXCEPT !.style = MapGet(style_map, p.style, p.style),
                   !.text = OrgStripper(EnsureTopPosition(p.text, eng))]

NormalizeBucket(bucket, style_map, eng) ==
    LET IsPrim(p) == /\ ~HasExplicitPositioning(p.text)
                     /\ MapGet(style_map, p.style, "None") = "Top-Primary"
        IsSec(p) == /\ ~HasExplicitPositioning(p.text)
                    /\ MapGet(style_map, p.style, "None") = "Top-Secondary"
        IsOther(p) == ~IsPrim(p) /\ ~IsSec(p)
        keep == DemoteRest(SelectSeq(bucket, IsPrim)) \o DemoteRest(SelectSeq(bucket, IsSec))
        all == keep \o SelectSeq(bucket, IsOther)
    IN  [i \in 1..Len(all) |-> PositionTop(all[i], style_map, eng)]

\* the two splitting passes, lines 241-244
SplitPasses(events, style_map) ==
    LET primary_points == CollectChangePoints(events, "Top-Primary", style_map)
        ev1 == SplitEventsOnPoints(events, primary_points, "Top-Secondary", style_map)
        secondary_points == CollectChangePoints(ev1, "Top-Secondary", style_map)
    IN  SplitEventsOnPoints(ev1, secondary_points, "Top-Primary", style_map)

\* every line is indexed up to p[9] and both of its times are parsed when it
\* is bucketed; the vertical transform unpacks the coordinates it rewrites
NormalizeTopRaises(events, style_map, eng) ==
    \E i \in 1..Len(events) :
        LET e == events[i]
        IN  \/ e.nf < EventFields
            \/ AssTimeRaises(e.start)
            \/ AssTimeRaises(e.end)
            \/ /\ ForceRaises(e.text)
               /\ ~(eng = "merger" /\ HasExplicitPositioning(e.text) /\ IsTopAligned(e.text))

NormalizeTop(events, style_map, eng) ==
    LET ev2 == SplitPasses(events, style_map)
        order == FirstSeen([i \in 1..Len(ev2) |-> Key(ev2[i])], {})
        Bucket(k) == LET InK(p) == Key(p) = k IN SelectSeq(ev2, InK)
    IN  Flatten([i \in 1..Len(order) |-> NormalizeBucket(Bucket(order[i]), style_map, eng)])

RecordsIntervalExplicitOnly(p, eng) ==
    /\ IsDialogue(p)
    /\ eng = "merger" /\ HasExplicitPositioning(p.text) /\ IsTopAligned(p.text)

\* lines 411-426 (sub-merger.py) / 436-445 (dual-subtitle-burner.py)
RecordsInterval(p, eng) ==
    /\ IsDialogue(p)
    /\ \/ p.style \in {"Top-Primary", "Top-Secondary"}
       \/ eng = "merger" /\ HasExplicitPositioning(p.text) /\ IsTopAligned(p.text)

EnglishIntervals(top, eng) ==
    LET Rec(p) == RecordsInterval(p, eng)
        rec == SelectSeq(top, Rec)
    IN  [i \in 1..Len(rec) |-> Key(rec[i])]

\* ------------------------------------------------------ bottom pipeline
processable == {"sub-cn", "default", "top"}
passthrough_styles ==
    {"title", "screen", "opjp", "opcn", "staff", "credit", "sign", "sfx"}

collides_with_top(s_ms, e_ms, english_intervals) ==
    \E i \in 1..Len(english_intervals) :
        Overlaps(s_ms, e_ms, english_intervals[i][1], english_intervals[i][2])

IsPassthrough(p) ==
    \/ Casefold(p.style) \in passthrough_styles
    \/ is_karaoke_or_template(p.effect, p.text)
    \/ Casefold(p.style) \notin processable

\* the test that decides whether an explicitly positioned bottom cue is moved:
\* lines 362 / 372 (sub-merger.py), lines 385 / 394 (dual-subtitle-burner.py)
ForcesBottomAlways(p, english_intervals, eng) ==
    HasExplicitPositioning(p.text)

ForcesBottom(p, english_intervals, eng) ==
    /\ HasExplicitPositioning(p.text)
    /\ \/ eng = "burner"
       \/ /\ IsTopAligned(p.text)
          /\ collides_with_top(StartMs(p), EndMs(p), english_intervals)

\* the body of the loop over events2
BottomOne(p, english_intervals, eng) ==
    IF IsPassthrough(p) \/ HasExplicitPositioning(p.text)
    THEN IF ForcesBottom(p, english_intervals, eng)
         THEN [p EXCEPT !.text = EnsureBottomPosition(p.text, eng)]
         ELSE p
    ELSE [p EXCEPT
            !.style = IF StartsWithAn8(p.text) \/ Casefold(p.style) = "top"
                      THEN "Bottom-Secondary"
                      ELSE IF collides_with_top(StartMs(p), EndMs(p), english_intervals)
                           THEN "Bottom-Primary-Raised"
                           ELSE "Bottom-Primary-Normal",
            !.text = TagStripper(p.text)]

\* sub-merger.py parses both times of every line (354-355); the embedded
\* engine parses them only for plain dialogue (401-402)
BottomRaises(events2, english_intervals, eng) ==
    \E i \in 1..Len(events2) :
        LET p == events2[i]
        IN  \/ p.nf < EventFields
            \/ /\ AssTimeRaises(p.start) \/ AssTimeRaises(p.end)
               /\ \/ eng = "merger"
                  \/ ~(IsPassthrough(p) \/ HasExplicitPositioning(p.text))
            \/ /\ ForceRaises(p.text)
               /\ ForcesBottom(p, english_intervals, eng)

SanitizeAndMapBottom(events2, styles2, english_intervals, eng) ==
    [events |-> [i \in 1..Len(events2) |-> BottomOne(events2[i], english_intervals, eng)],
     kept |-> {events2[i].style :
                 i \in {j \in 1..Len(events2) :
                          /\ IsPassthrough(events2[j]) \/ HasExplicitPositioning(events2[j].text)
                          /\ events2[j].style \in styles2}}]

\* ------------------------------------------------------------ input texts
T(ms) == MsToAssTime(ms)

Hello == <<Lit("Hello")>>
World == <<Lit("World")>>
Positioned(tags) == <<Block(tags), Lit("Hello")>>
PosTop == Positioned(<<Tag("pos", <<500, 100>>)>>)
PosMid == Positioned(<<Tag("pos", <<500, 540>>)>>)
PosLow == Positioned(<<Tag("pos", <<500, 700>>)>>)
PosOff == Positioned(<<Tag("pos", <<500, 1200>>)>>)
PosBigX == Positioned(<<Tag("pos", <<1234567, 700>>)>>)
UpperPos == Positioned(<<Tag("POS", <<500, 700>>)>>)
OrgOnly == Positioned(<<Tag("org", <<960, 540>>)>>)
PosWithOrg == Positioned(<<Tag("pos", <<500, 100>>), Tag("org", <<960, 540>>)>>)
BoldThenPos == Positioned(<<Tag("b", <<1>>), Tag("pos", <<500, 700>>)>>)
An2 == Positioned(<<Tag("an", <<2>>)>>)
An5 == Positioned(<<Tag("an", <<5>>)>>)
An8 == Positioned(<<Tag("an", <<8>>)>>)
PosOneArg == Positioned(<<Tag("pos", <<500>>)>>)
An8PosOneArg == Positioned(<<Tag("an", <<8>>), Tag("pos", <<500>>)>>)
MoveTop == Positioned(<<Tag("move", <<100, 100, 200, 200, 0, 500>>)>>)
MoveLow == Positioned(<<Tag("move", <<100, 700, 200, 800, 0, 500>>)>>)
MoveMixed == Positioned(<<Tag("move", <<100, 700, 200, 100>>)>>)
Karaoke == <<Block(<<Tag("k", <<30>>)>>), Lit("Hello"), Block(<<Tag("k", <<40>>)>>), Lit(" world")>>
KaraokeBold == <<Block(<<Tag("b", <<1>>), Tag("k", <<30>>)>>), Lit("Hello")>>
KaraokeAn8 == <<Block(<<Tag("b", <<1>>), Tag("an", <<8>>), Tag("k", <<30>>)>>), Lit("Hello")>>
KaraokePos == <<Block(<<Tag("k", <<30>>)>>), Lit("Hello"), Block(<<Tag("pos", <<500, 100>>)>>)>>
TemplateTxt == <<Lit("Template line")>>

\* ---------------------------------------------------------------- inputs
File(readable, styles, events) ==
    [readable |-> readable, styles |-> styles, events |-> events]
Case(eng, top, bottom) == [eng |-> eng, top |-> top, bottom |-> bottom]
SeqsUpTo(S, n) == UNION {[1..k -> S] : k \in 1..n}

TopStyles == {"Default", "Italics", "Signs"}
BottomStyles == {"Sub-CN", "Sign", "OP"}
TopIntervals == {<<0, 2000>>, <<1000, 3000>>, <<1000, 2000>>}
PlainBottom == <<Ev("Dialogue", T(1000), T(1500), "Sub-CN", "", Hello)>>

\* plain dialogue of the three top styles: duplicates, partial overlaps, splits
PlainTopEvents ==
    {Ev("Dialogue", T(iv[1]), T(iv[2]), st, "", Hello) :
        iv \in TopIntervals, st \in TopStyles}
PlainCases ==
    {Case("merger", File(TRUE, TopStyles, es), File(TRUE, BottomStyles, PlainBottom)) :
        es \in SeqsUpTo(PlainTopEvents, MaxTopLen)}

\* Dialogue and Comment lines mixed
MixedTopEvents ==
    {Ev(k, T(iv[1]), T(iv[2]), st, "", Hello) :
        k \in {"Dialogue", "Comment"}, iv \in TopIntervals, st \in TopStyles}
MixedCases ==
    {Case("merger", File(TRUE, TopStyles, es), File(TRUE, BottomStyles, PlainBottom)) :
        es \in [1..2 -> MixedTopEvents]}

\* one positioned top cue, alone or next to a plain cue of the same interval
TopTexts ==
    {Hello, PosTop, PosMid, PosLow, PosOff, PosBigX, UpperPos, OrgOnly,
     PosWithOrg, BoldThenPos, An2, An5, An8, MoveTop, MoveLow, MoveMixed,
     PosOneArg}
PositionedCases ==
    {Case(eng, File(TRUE, TopStyles, es), File(TRUE, BottomStyles, PlainBottom)) :
        eng \in {"merger", "burner"},
        es \in UNION {{<<Ev("Dialogue", T(0), T(2000), st, "", tx)>>,
                       <<Ev("Dialogue", T(0), T(2000), st, "", tx),
                         Ev("Dialogue", T(0), T(2000), "Default", "", World)>>} :
                        st \in {"Default", "Signs"}, tx \in TopTexts}}

\* bottom cues of every class against the top interval [1000, 3000)
BottomTexts ==
    {Hello, PosTop, PosLow, An8, An2, MoveTop, MoveMixed, An8PosOneArg,
     Karaoke, KaraokeBold, KaraokeAn8, KaraokePos, TemplateTxt}
BottomIntervals == {<<2000, 2500>>, <<4000, 4500>>, <<3000, 4000>>, <<0, 1000>>}
RichBottomEvents ==
    {Ev("Dialogue", T(iv[1]), T(iv[2]), st, "", tx) :
        iv \in BottomIntervals, st \in {"Sub-CN", "Default", "Top", "Sign", "OP"},
        tx \in BottomTexts}
    \cup
    {Ev(k, T(iv[1]), T(iv[2]), "Sub-CN", fx, Hello) :
        k \in {"Dialogue", "Comment"}, iv \in BottomIntervals, fx \in {"", "fx"}}
MoreBottomEvents ==
    {Ev("Dialogue", T(2000), T(2500), "Sub-CN", "", Hello),
     Ev("Dialogue", T(4000), T(4500), "Sign", "", PosTop)}
BottomLists ==
    UNION {{<<b>> \o more : more \in {<<>>} \cup SeqsUpTo(MoreBottomEvents, MaxBottomLen - 1)} :
              b \in RichBottomEvents}
\* top tracks that occupy [1000, 3000): by role, by a top-aligned positioned
\* cue of an unmapped style, and not at all (a Comment line)
TopTracks ==
    {<<Ev("Dialogue", T(1000), T(3000), "Default", "", Hello)>>,
     <<Ev("Dialogue", T(1000), T(3000), "Signs", "", PosTop)>>,
     <<Ev("Comment", T(1000), T(3000), "Default", "", Hello)>>}
BottomCases ==
    {Case(eng, File(TRUE, TopStyles, ts), File(TRUE, BottomStyles, bs)) :
        eng \in {"merger", "burner"}, ts \in TopTracks, bs \in BottomLists}

\* the end-to-end scenario, its variations and its failure modes
ExtraLines ==
    {<<>>, <<ShortLine>>,
     <<Ev("Dialogue", BadTime, T(2000), "Default", "", Hello)>>,
     <<Ev("Dialogue", T(1000), BadTime, "Sign", "", Hello)>>}
ScenarioCases ==
    {Case(eng,
          File(r1, {"Default", "Italics"},
               <<Ev("Dialogue", T(0), T(2000), "Default", "", t1),
                 Ev("Dialogue", T(0), T(2000), "Default", "", t2)>> \o x1),
          File(r2, {"Sub-CN"},
               <<Ev("Dialogue", T(1000), T(1500), "Sub-CN", "", Hello)>> \o x2)) :
        eng \in {"merger", "burner"}, r1 \in BOOLEAN, r2 \in BOOLEAN,
        t1 \in {Hello, World}, t2 \in {Hello},
        x1 \in ExtraLines, x2 \in ExtraLines}

\* a cue of no duration (start = end), alone, before and after a cue of
\* another or of its own style
ZeroCues ==
    {Ev(k, T(1000), T(1000), st, "", World) :
        k \in {"Dialogue", "Comment"}, st \in TopStyles}
ZeroCases ==
    {Case(eng, File(TRUE, TopStyles, es), File(TRUE, BottomStyles, PlainBottom)) :
        eng \in {"merger", "burner"},
        es \in UNION {{<<z>>, <<z, Ev("Dialogue", T(0), T(2000), st, "", Hello)>>,
                       <<Ev("Dialogue", T(0), T(2000), st, "", Hello), z>>} :
                        z \in ZeroCues, st \in TopStyles}}

InputCases ==
    PlainCases \cup MixedCases \cup PositionedCases \cup BottomCases \cup ScenarioCases
    \cup ZeroCases

\* ------------------------------------------------------------------- state
VARIABLES
    eng,                \* which SubMerger runs: "merger" (sub-merger.py) or
                        \* "burner" (the class inside dual-subtitle-burner.py)
    first_sub,          \* the top subtitle file
    second_sub,         \* the bottom subtitle file
    pc,                 \* position inside merge_subs_for_batch
    styles1, events1,   \* parse result of first_sub
    styles2, events2,   \* parse result of second_sub
    style_map1,
    top_events,
    english_intervals,
    bottom_events,
    final_styles,
    out_file,           \* <stem>_temp_merged.ass in settings_dir
    exc,                \* the exception caught at line 469, "-" if none: "OSError"
                        \* from a file operation, "LineError" for the IndexError
                        \* or ValueError raised while an event line is processed
    result              \* value returned by the call: "path", "None", or "-"

merge_vars == <<eng, first_sub, second_sub, pc, styles1, events1, styles2, events2,
                style_map1, top_events, english_intervals, bottom_events,
                final_styles, out_file, exc, result>>

\* one call of a static helper on its own (_ms_to_ass_time followed by
\* _ass_time_to_ms, or _overlaps)
VARIABLES
    fn,                 \* the helper that is called, "-" if none
    fn_args,            \* its integer arguments
    time_str,           \* the characters returned by _ms_to_ass_time
    fn_ret,             \* the returned value, as a one element sequence
    fn_pc               \* "idle", "call", "formatted", "done"

call_vars == <<fn, fn_args, time_str, fn_ret, fn_pc>>

\* BatchWorker of dual-subtitle-burner.py: the worker thread in run() and the
\* GUI thread in cancel()
VARIABLES
    mode,               \* mode_selector.currentText()
    total_jobs,         \* len(self.jobs)
    job,                \* the job of the current loop iteration, counted from 1
    worker_pc,          \* position of the worker thread inside run()
    is_cancelled,       \* self.is_cancelled
    process,            \* self.process: 0 for None, else the job whose Popen it is
    procs,              \* state of the transcode process of each job
    status,             \* last job_started / job_finished signal of each job
    merged_subs_path,   \* the local of that name: 0 for None, else the job
    merge_result,       \* what merge_subs_for_batch returned for each job, "-"
                        \* while it was not called
    temp_files,         \* jobs whose <stem>_temp_merged.ass exists on disk
    cancel_pc,          \* position of the GUI thread inside cancel()
    cancel_calls,       \* number of calls of cancel() so far
    batch_msg,          \* text of the batch_finished signal, "-" before it
    unlink_failed,      \* jobs whose merged_subs_path.unlink() raised OSError
    emitted             \* the job_started, job_finished and batch_finished
                        \* signals emitted so far, in order

batch_vars == <<mode, total_jobs, job, worker_pc, is_cancelled, process, procs,
                status, merged_subs_path, merge_result, temp_files, cancel_pc,
                cancel_calls, batch_msg, unlink_failed, emitted>>

\* two calls of merge_subs_for_batch on one SubMerger object, each with its
\* own locals; the directory settings_dir is what they share
VARIABLES
    pair_calls,         \* the arguments of call 1 and call 2
    pair_pc,            \* position of each call inside merge_subs_for_batch
    pair_merged,        \* the local "merged" of each call, as a script
    disk,               \* the files <stem>_temp_merged.ass of settings_dir, by stem
    pair_ret            \* what each call returned: "-" (not yet), "None", or
                        \* the stem of the path it returned

pair_vars == <<pair_calls, pair_pc, pair_merged, disk, pair_ret>>

vars == <<merge_vars, call_vars, batch_vars, pair_vars>>

\* what an action of merge_subs_for_batch leaves alone
outside_merge == <<call_vars, batch_vars, pair_vars>>
\* what a helper call leaves alone
outside_calls == <<merge_vars, batch_vars, pair_vars>>
\* what an action of BatchWorker leaves alone
outside_batch == <<merge_vars, call_vars, pair_vars>>
\* what a step of one of the two calls leaves alone
outside_pair == <<merge_vars, call_vars, batch_vars>>

\* no pair of calls is under way
PairIdle ==
    /\ pair_calls = <<>> /\ pair_pc = <<>> /\ pair_merged = <<>>
    /\ disk = <<>> /\ pair_ret = <<>>

\* no batch is running
BatchIdle ==
    /\ mode = "-" /\ total_jobs = 0 /\ job = 0 /\ worker_pc = "idle"
    /\ is_cancelled = FALSE /\ process = 0 /\ procs = <<>> /\ status = <<>>
    /\ merged_subs_path = 0 /\ merge_result = <<>> /\ temp_files = {}
    /\ cancel_pc = "idle" /\ cancel_calls = 0 /\ batch_msg = "-"
    /\ unlink_failed = {} /\ emitted = <<>>

\* no helper call is under way
CallIdle ==
    /\ fn = "-" /\ fn_args = <<>> /\ time_str = <<>> /\ fn_ret = <<>> /\ fn_pc = "idle"

inputs == <<eng, first_sub, second_sub>>
parsed == <<styles1, events1, styles2, events2>>

NoFile == [state |-> "absent", styles |-> {}, events |-> <<>>]

Init ==
    \E c \in InputCases :
        /\ eng = c.eng
        /\ first_sub = c.top
        /\ second_sub = c.bottom
        /\ pc = "read"
        /\ styles1 = {} /\ events1 = <<>>
        /\ styles2 = {} /\ events2 = <<>>
        /\ style_map1 = <<>>
        /\ top_events = <<>>
        /\ english_intervals = <<>>
        /\ bottom_events = <<>>
        /\ final_styles = {}
        /\ out_file = NoFile
        /\ exc = "-"
        /\ result = "-"
        /\ CallIdle
        /\ BatchIdle
        /\ PairIdle

\* lines 397-404: read_text raises on an unreadable file
ReadParse ==
    /\ pc = "read"
    /\ IF first_sub.readable /\ second_sub.readable
       THEN /\ styles1' = first_sub.styles
            /\ events1' = first_sub.events
            /\ styles2' = second_sub.styles
            /\ events2' = second_sub.events
            /\ pc' = "top"
            /\ UNCHANGED exc
       ELSE /\ pc' = "except"
            /\ exc' = "OSError"
            /\ UNCHANGED parsed
    /\ UNCHANGED <<inputs, style_map1, top_events, english_intervals,
                   bottom_events, final_styles, out_file, result>>
    /\ UNCHANGED outside_merge

\* lines 406-409
NormalizeTopStep ==
    /\ pc = "top"
    /\ IF CreateTopStyleMapRaises(styles1, events1)
       THEN /\ pc' = "except"
            /\ exc' = "LineError"
            /\ UNCHANGED <<style_map1, top_events, final_styles>>
       ELSE LET sm == CreateTopStyleMap(styles1, events1)
            IN  /\ style_map1' = sm
                /\ final_styles' = MasterStyles
                /\ IF NormalizeTopRaises(events1, sm, eng)
                   THEN /\ pc' = "except"
                        /\ exc' = "LineError"
                        /\ UNCHANGED top_events
                   ELSE /\ top_events' = NormalizeTop(events1, sm, eng)
                        /\ pc' = "intervals"
                        /\ UNCHANGED exc
    /\ UNCHANGED <<inputs, parsed, english_intervals, bottom_events, out_file, result>>
    /\ UNCHANGED outside_merge

\* lines 411-426
RecordIntervals ==
    /\ pc = "intervals"
    /\ english_intervals' = EnglishIntervals(top_events, eng)
    /\ pc' = "bottom"
    /\ UNCHANGED <<inputs, parsed, style_map1, top_events, bottom_events,
                   final_styles, out_file, exc, result>>
    /\ UNCHANGED outside_merge

\* lines 428-433
MapBottom ==
    /\ pc = "bottom"
    /\ IF BottomRaises(events2, english_intervals, eng)
       THEN /\ pc' = "except"
            /\ exc' = "LineError"
            /\ UNCHANGED <<bottom_events, final_styles>>
       ELSE LET r == SanitizeAndMapBottom(events2, styles2, english_intervals, eng)
            IN  /\ bottom_events' = r.events
                /\ final_styles' = final_styles \cup (r.kept \cap styles2)
                /\ pc' = "write"
                /\ UNCHANGED exc
    /\ UNCHANGED <<inputs, parsed, style_map1, top_events, english_intervals,
                   out_file, result>>
    /\ UNCHANGED outside_merge

\* lines 435-465: Path.write_text opens the file for writing (creating or
\* truncating it) and then writes; either step can raise OSError
WriteOutput ==
    /\ pc = "write"
    /\ \E outcome \in {"written", "open fails", "write fails"} :
        \/ /\ outcome = "written"
           /\ out_file' = [state |-> "written", styles |-> final_styles,
                           events |-> top_events \o bottom_events]
           /\ pc' = "return"
           /\ UNCHANGED exc
        \/ /\ outcome = "open fails"
           /\ UNCHANGED out_file
           /\ exc' = "OSError"
           /\ pc' = "except"
        \/ /\ outcome = "write fails"
           /\ out_file' = [state |-> "partial", styles |-> {}, events |-> <<>>]
           /\ exc' = "OSError"
           /\ pc' = "except"
    /\ UNCHANGED <<inputs, parsed, style_map1, top_events, english_intervals,
                   bottom_events, final_styles, result>>
    /\ UNCHANGED outside_merge

\* lines 466-467
Return ==
    /\ pc = "return"
    /\ result' = "path"
    /\ pc' = "done"
    /\ UNCHANGED <<inputs, parsed, style_map1, top_events, english_intervals,
                   bottom_events, final_styles, out_file, exc>>
    /\ UNCHANGED outside_merge

\* lines 469-471
Except ==
    /\ pc = "except"
    /\ result' = "None"
    /\ pc' = "done"
    /\ UNCHANGED <<inputs, parsed, style_map1, top_events, english_intervals,
                   bottom_events, final_styles, out_file, exc>>
    /\ UNCHANGED outside_merge

Next ==
    \/ ReadParse
    \/ NormalizeTopStep
    \/ RecordIntervals
    \/ MapBottom
    \/ WriteOutput
    \/ Return
    \/ Except

Spec == Init /\ [][Next]_vars

\* ------------------------------------------------- helper calls on their own
\* the merge engine is not running
MergeIdle ==
    /\ eng = "merger"
    /\ first_sub = File(FALSE, {}, <<>>)
    /\ second_sub = File(FALSE, {}, <<>>)
    /\ pc = "idle"
    /\ styles1 = {} /\ events1 = <<>>
    /\ styles2 = {} /\ events2 = <<>>
    /\ style_map1 = <<>>
    /\ top_events = <<>>
    /\ english_intervals = <<>>
    /\ bottom_events = <<>>
    /\ final_styles = {}
    /\ out_file = NoFile
    /\ exc = "-"
    /\ result = "-"

\* minute, second and centisecond fields at the edges of their ranges and at
\* the one-digit / two-digit border
MinuteSamples == {0, 1, 9, 10, 59}
SecondSamples == {0, 1, 9, 10, 59}
CentiSamples == {0, 1, 9, 10, 50, 99}

\* ms packed from (h, m, s, cs)
PackedMs == {((h * 3600 + m * 60 + sec) * 1000) + cs * 10 :
                h \in 0..MaxHour, m \in MinuteSamples, sec \in SecondSamples,
                cs \in CentiSamples}

OverlapPoints == {10 * k : k \in (0 - MaxPoint)..MaxPoint}

\* inputs of _split_events_on_points: cues of both roles, Dialogue and Comment,
\* a long cue, a short cue inside it and an empty cue; boundary points inside
\* the cues, on their ends and none at all
SplitStyleMap == [n \in {"Default", "Italics"} |->
                    IF n = "Default" THEN "Top-Primary" ELSE "Top-Secondary"]
SplitIntervals == {<<0, 3000>>, <<1000, 2000>>, <<1000, 1000>>}
SplitEvents ==
    {Ev(k, T(iv[1]), T(iv[2]), st, "", Hello) :
        k \in {"Dialogue", "Comment"}, iv \in SplitIntervals, st \in {"Default", "Italics"}}
SplitPointSets == SUBSET {500, 1000, 1500, 3000}

\* inputs of _create_top_style_map: style tables with known names, with
\* unknown names only, with a name that differs from a known one in letter
\* case, and empty; event lists of Dialogue and Comment lines of three unknown
\* styles and a truncated line
StyleTables ==
    {{}, {"Default"}, {"Italics"}, {"On Top"}, {"Default", "On Top Italic", "Main"},
     {"OS", "Main"}, {"default", "italics"}, {"Main"}, {"Main", "Alt", "Third"}}
TallyEvents ==
    {Ev(k, T(0), T(1000), st, "", Hello) :
        k \in {"Dialogue", "Comment"}, st \in {"Main", "Alt", "Third"}}
    \cup {ShortLine}
TallyLists == {<<>>} \cup SeqsUpTo(TallyEvents, MaxTallyLen)

\* inputs of _force_vertical_region: every alignment code, and \pos and \move
\* with y on, next to and far from the midline, on the canvas edges and outside
\* the canvas, x from zero to seven digits, with and without the trailing
\* times of \move; a text with a tag of each kind and a tag that is not touched
ForceYs == {0 - 100, 0, 539, 540, 541, 1080, 1200}
ForceXs == {0, 960, 999999, 1234567}
ForceTexts ==
    {Positioned(<<Tag("an", <<n>>)>>) : n \in 1..9}
    \cup {Positioned(<<Tag("pos", <<x, y>>)>>) : x \in ForceXs, y \in ForceYs}
    \cup {Positioned(<<Tag("move", <<100, y1, x2, y2>> \o rest)>>) :
            y1 \in ForceYs, x2 \in ForceXs, y2 \in ForceYs, rest \in {<<>>, <<0, 500>>}}
    \cup {<<Block(<<Tag("b", <<1>>), Tag("an", <<2>>)>>), Lit("Hello"),
            Block(<<Tag("pos", <<960, 700>>)>>), Block(<<Tag("an", <<5>>)>>)>>,
          PosOneArg}

InitCalls ==
    /\ MergeIdle
    /\ BatchIdle
    /\ PairIdle
    /\ \/ /\ fn = "_ms_to_ass_time"
          /\ \E ms \in PackedMs : fn_args = <<ms>>
       \/ /\ fn = "_overlaps"
          /\ \E a, b, c, d \in OverlapPoints : fn_args = <<a, b, c, d>>
       \/ /\ fn = "_split_events_on_points"
          /\ \E evs \in SeqsUpTo(SplitEvents, MaxSplitLen), pts \in SplitPointSets,
                role \in {"Top-Primary", "Top-Secondary"} :
                fn_args = <<evs, pts, role>>
       \/ /\ fn = "_create_top_style_map"
          /\ \E tbl \in StyleTables, evs \in TallyLists : fn_args = <<tbl, evs>>
       \/ /\ fn = "_force_vertical_region"
          /\ \E text \in ForceTexts, to_top \in BOOLEAN : fn_args = <<text, to_top>>
    /\ time_str = <<>>
    /\ fn_ret = <<>>
    /\ fn_pc = "call"

\* lines 16-22
MsToAssTimeCall ==
    /\ fn = "_ms_to_ass_time" /\ fn_pc = "call"
    /\ time_str' = FormatFields(MsToAssTime(fn_args[1]))
    /\ fn_pc' = "formatted"
    /\ UNCHANGED <<outside_calls, fn, fn_args, fn_ret>>

\* lines 10-14, applied to the text just produced
AssTimeToMsCall ==
    /\ fn = "_ms_to_ass_time" /\ fn_pc = "formatted"
    /\ IF AssTimeRaises(ParseFields(time_str))
       THEN fn_ret' = <<>> /\ fn_pc' = "raised"
       ELSE fn_ret' = <<AssTimeToMs(ParseFields(time_str))>> /\ fn_pc' = "done"
    /\ UNCHANGED <<outside_calls, fn, fn_args, time_str>>

\* lines 24-26
OverlapsCall ==
    /\ fn = "_overlaps" /\ fn_pc = "call"
    /\ fn_ret' = <<Overlaps(fn_args[1], fn_args[2], fn_args[3], fn_args[4])>>
    /\ fn_pc' = "done"
    /\ UNCHANGED <<outside_calls, fn, fn_args, time_str>>

\* lines 208-233, with the style predicate of _normalize_top for the role
SplitEventsOnPointsCall ==
    /\ fn = "_split_events_on_points" /\ fn_pc = "call"
    /\ fn_ret' = <<SplitEventsOnPoints(fn_args[1], fn_args[2], fn_args[3], SplitStyleMap)>>
    /\ fn_pc' = "done"
    /\ UNCHANGED <<outside_calls, fn, fn_args, time_str>>

\* lines 66-91
CreateTopStyleMapCall ==
    /\ fn = "_create_top_style_map" /\ fn_pc = "call"
    /\ IF CreateTopStyleMapRaises(fn_args[1], fn_args[2])
       THEN fn_ret' = <<>> /\ fn_pc' = "raised"
       ELSE fn_ret' = <<CreateTopStyleMap(fn_args[1], fn_args[2])>> /\ fn_pc' = "done"
    /\ UNCHANGED <<outside_calls, fn, fn_args, time_str>>

\* lines 140-185
ForceVerticalRegionCall ==
    /\ fn = "_force_vertical_region" /\ fn_pc = "call"
    /\ IF ForceRaises(fn_args[1])
       THEN fn_ret' = <<>> /\ fn_pc' = "raised"
       ELSE fn_ret' = <<ForceVerticalRegion(fn_args[1], fn_args[2], eng)>> /\ fn_pc' = "done"
    /\ UNCHANGED <<outside_calls, fn, fn_args, time_str>>

NextCalls ==
    \/ MsToAssTimeCall
    \/ AssTimeToMsCall
    \/ OverlapsCall
    \/ SplitEventsOnPointsCall
    \/ CreateTopStyleMapCall
    \/ ForceVerticalRegionCall

SpecCalls == InitCalls /\ [][NextCalls]_vars

\* ------------------------------------------------------------- BatchWorker
Modes == {"Soft Burn (Mux Combined Track)", "Mux Separate Tracks", "Burn (Hardsubs)"}

\* "Soft Burn" in processing_mode, else "Mux Separate" in it, else "Burn" in it
CallsMerge(m) == m \in {"Soft Burn (Mux Combined Track)", "Burn (Hardsubs)"}

\* what merge_subs_for_batch can hand back to run(): the path of the written
\* script, or None with no file or with the partial file of a failed write
MergeReturns == {"path", "None", "None, partial file"}

Running(j) == j \in DOMAIN procs /\ procs[j] = "running"

\* a failed merge ends the whole loop
AfterMergeFailureBreak == "emit"

\* lines 1122-1127 and 1193-1198: "continue" leaves the try block through its
\* finally clause and goes on with the next job
AfterMergeFailure == "finally"

\* a signal in the order of emission; job is 0 for batch_finished
Signal(sig, j, text) == [sig |-> sig, job |-> j, text |-> text]

\* the signal is not emitted
EmitJobFinishedDropped(log, j, text) == log

\* self.job_finished.emit(i, text): lines 1126, 1197, 1259-1263, 1267
EmitJobFinished(log, j, text) == Append(log, Signal("job_finished", j, text))

\* the file is left where it is
UnlinkKept(files, path) == files

\* merged_subs_path.unlink() of line 1270
Unlink(files, path) == files \ {path}

InitBatch ==
    /\ MergeIdle
    /\ CallIdle
    /\ PairIdle
    /\ mode \in Modes
    /\ total_jobs \in 1..MaxJobs
    /\ job = 1
    /\ worker_pc = "loop"
    /\ is_cancelled = FALSE
    /\ process = 0
    /\ procs = [j \in 1..total_jobs |-> "none"]
    /\ status = [j \in 1..total_jobs |-> "-"]
    /\ merged_subs_path = 0
    /\ merge_result = [j \in 1..total_jobs |-> "-"]
    /\ temp_files = {}
    /\ cancel_pc = "idle"
    /\ cancel_calls = 0
    /\ batch_msg = "-"
    /\ unlink_failed = {}
    /\ emitted = <<>>

\* lines 1103-1107: the head of the for loop
LoopHead ==
    /\ worker_pc = "loop"
    /\ IF job > total_jobs \/ is_cancelled
       THEN worker_pc' = "emit" /\ UNCHANGED <<status, emitted>>
       ELSE /\ status' = [status EXCEPT ![job] = "started"]
            /\ emitted' = Append(emitted, Signal("job_started", job, "-"))
            /\ worker_pc' = "prepare"
    /\ UNCHANGED <<mode, total_jobs, job, is_cancelled, process, procs,
                   merged_subs_path, merge_result, temp_files, cancel_pc, cancel_calls,
                   batch_msg, unlink_failed>>
    /\ UNCHANGED outside_batch

\* lines 1109-1222: the merge, where the mode asks for one, and the command
PrepareJob ==
    /\ worker_pc = "prepare"
    /\ IF CallsMerge(mode)
       THEN \E r \in MergeReturns :
              /\ merge_result' = [merge_result EXCEPT ![job] = r]
              /\ IF r = "path"
                 THEN /\ merged_subs_path' = job
                      /\ temp_files' = temp_files \cup {job}
                      /\ worker_pc' = "popen"
                      /\ UNCHANGED <<status, emitted>>
                 ELSE /\ merged_subs_path' = 0
                      /\ temp_files' = IF r = "None" THEN temp_files
                                       ELSE temp_files \cup {job}
                      /\ status' = [status EXCEPT ![job] = "Merge Failed"]
                      /\ emitted' = EmitJobFinished(emitted, job, "Merge Failed")
                      /\ worker_pc' = AfterMergeFailure
       ELSE /\ worker_pc' = "popen"
            /\ UNCHANGED <<merged_subs_path, merge_result, temp_files, status, emitted>>
    /\ UNCHANGED <<mode, total_jobs, job, is_cancelled, process, procs,
                   cancel_pc, cancel_calls, batch_msg, unlink_failed>>
    /\ UNCHANGED outside_batch

\* lines 1224-1232: subprocess.Popen starts the process or raises
StartProcess ==
    /\ worker_pc = "popen"
    /\ \E started \in BOOLEAN :
         IF started
         THEN /\ process' = job
              /\ procs' = [procs EXCEPT ![job] = "running"]
              /\ worker_pc' = "stderr"
              /\ UNCHANGED <<status, emitted>>
         ELSE /\ status' = [status EXCEPT ![job] = "Error"]
              /\ emitted' = EmitJobFinished(emitted, job, "Error")
              /\ worker_pc' = "finally"
              /\ UNCHANGED <<process, procs>>
    /\ UNCHANGED <<mode, total_jobs, job, is_cancelled, merged_subs_path,
                   merge_result, temp_files, cancel_pc, cancel_calls, batch_msg,
                   unlink_failed>>
    /\ UNCHANGED outside_batch

\* lines 1234-1255: the loop over stderr ends at end of file, which comes when
\* the process is gone, or at the first line read after the flag was set
ReadStderr ==
    /\ worker_pc = "stderr"
    /\ is_cancelled \/ ~Running(job)
    /\ worker_pc' = "wait"
    /\ UNCHANGED <<mode, total_jobs, job, is_cancelled, process, procs, status,
                   merged_subs_path, merge_result, temp_files, cancel_pc, cancel_calls,
                   batch_msg, unlink_failed, emitted>>
    /\ UNCHANGED outside_batch

\* lines 1234-1255 and 1265-1267: reading a line or handling it raises; the
\* except clause reports the job and the process is left as it is
ReadStderrRaises ==
    /\ worker_pc = "stderr"
    /\ status' = [status EXCEPT ![job] = "Error"]
    /\ emitted' = EmitJobFinished(emitted, job, "Error")
    /\ worker_pc' = "finally"
    /\ UNCHANGED <<mode, total_jobs, job, is_cancelled, process, procs,
                   merged_subs_path, merge_result, temp_files, cancel_pc, cancel_calls,
                   batch_msg, unlink_failed>>
    /\ UNCHANGED outside_batch

\* lines 1257-1263: process.wait() returns when the process is gone
WaitAndReport ==
    /\ worker_pc = "wait"
    /\ ~Running(job)
    /\ status' = [status EXCEPT ![job] =
                    IF is_cancelled THEN "Cancelled"
                    ELSE IF procs[job] = "exited 0" THEN "Done"
                    ELSE "Failed"]
    /\ emitted' = EmitJobFinished(emitted, job, status'[job])
    /\ worker_pc' = "finally"
    /\ UNCHANGED <<mode, total_jobs, job, is_cancelled, process, procs,
                   merged_subs_path, merge_result, temp_files, cancel_pc, cancel_calls,
                   batch_msg, unlink_failed>>
    /\ UNCHANGED outside_batch

\* lines 1268-1275, then the next iteration
FinallyUnlink ==
    /\ worker_pc = "finally"
    /\ IF merged_subs_path # 0 /\ merged_subs_path \in temp_files
       THEN \E unlinked \in BOOLEAN :
              IF unlinked
              THEN /\ temp_files' = Unlink(temp_files, merged_subs_path)
                   /\ UNCHANGED unlink_failed
              ELSE /\ unlink_failed' = unlink_failed \cup {merged_subs_path}
                   /\ UNCHANGED temp_files
       ELSE UNCHANGED <<temp_files, unlink_failed>>
    /\ merged_subs_path' = 0
    /\ job' = job + 1
    /\ worker_pc' = "loop"
    /\ UNCHANGED <<mode, total_jobs, is_cancelled, process, procs, status,
                   merge_result, cancel_pc, cancel_calls, batch_msg, emitted>>
    /\ UNCHANGED outside_batch

\* lines 1277-1281
EmitBatchFinished ==
    /\ worker_pc = "emit"
    /\ batch_msg' = IF is_cancelled THEN "Batch cancelled." ELSE "Batch processing finished."
    /\ emitted' = Append(emitted, Signal("batch_finished", 0, batch_msg'))
    /\ worker_pc' = "finished"
    /\ UNCHANGED <<mode, total_jobs, job, is_cancelled, process, procs, status,
                   merged_subs_path, merge_result, temp_files, cancel_pc,
                   cancel_calls, unlink_failed>>
    /\ UNCHANGED outside_batch

\* the transcode process ends on its own, with return code 0 or not
ProcessExits ==
    /\ \E j \in 1..total_jobs, rc \in {"exited 0", "exited 1"} :
         /\ Running(j)
         /\ procs' = [procs EXCEPT ![j] = rc]
    /\ UNCHANGED <<mode, total_jobs, job, worker_pc, is_cancelled, process, status,
                   merged_subs_path, merge_result, temp_files, cancel_pc, cancel_calls,
                   batch_msg, unlink_failed, emitted>>
    /\ UNCHANGED outside_batch

\* line 1068, called from cancel_batch while the worker is running (line 916)
CancelSetFlag ==
    /\ cancel_pc = "idle"
    /\ cancel_calls < MaxCancelCalls
    /\ worker_pc \notin {"idle", "finished"}
    /\ is_cancelled' = TRUE
    /\ cancel_calls' = cancel_calls + 1
    /\ cancel_pc' = "flagged"
    /\ UNCHANGED <<mode, total_jobs, job, worker_pc, process, procs, status,
                   merged_subs_path, merge_result, temp_files, batch_msg,
                   unlink_failed, emitted>>
    /\ UNCHANGED outside_batch

\* lines 1069-1073: kill() of the process self.process refers to, if any
CancelKill ==
    /\ cancel_pc = "flagged"
    /\ procs' = IF process # 0 /\ Running(process)
                THEN [procs EXCEPT ![process] = "killed"]
                ELSE procs
    /\ cancel_pc' = "idle"
    /\ UNCHANGED <<mode, total_jobs, job, worker_pc, is_cancelled, process, status,
                   merged_subs_path, merge_result, temp_files, cancel_calls,
                   batch_msg, unlink_failed, emitted>>
    /\ UNCHANGED outside_batch

\* the steps of the worker thread
WorkerStep ==
    \/ LoopHead
    \/ PrepareJob
    \/ StartProcess
    \/ ReadStderr
    \/ ReadStderrRaises
    \/ WaitAndReport
    \/ FinallyUnlink
    \/ EmitBatchFinished

NextBatch ==
    \/ LoopHead
    \/ PrepareJob
    \/ StartProcess
    \/ ReadStderr
    \/ ReadStderrRaises
    \/ WaitAndReport
    \/ FinallyUnlink
    \/ EmitBatchFinished
    \/ ProcessExits
    \/ CancelSetFlag
    \/ CancelKill

\* the worker thread keeps running and a transcode process ends in finite time
SpecBatch ==
    InitBatch /\ [][NextBatch]_vars /\ WF_vars(WorkerStep) /\ WF_vars(ProcessExits)

\* ---------------------------------------------- two calls of the merge
\* a video file name: stem and suffix
Video(stem, ext) == [stem |-> stem, ext |-> ext]
Videos == {Video("ep1", "mkv"), Video("ep2", "mkv"), Video("ep1", "mp4")}
Stems == {v.stem : v \in Videos}

\* every output path is in settings_dir and has the same suffix
\* "_temp_merged.ass"
OutPathShared(video) == "ep1"

\* line 464: self.settings_dir / f"{video_file.stem}_temp_merged.ass"
OutPath(video) == video.stem

\* lines 397-463 as one function of the two input files: the script in the
\* local "merged", or the exception that ends the try block
MergedScript(e, top, bottom) ==
    IF ~top.readable \/ ~bottom.readable THEN [raised |-> TRUE, script |-> NoFile]
    ELSE IF CreateTopStyleMapRaises(top.styles, top.events)
    THEN [raised |-> TRUE, script |-> NoFile]
    ELSE LET sm == CreateTopStyleMap(top.styles, top.events)
         IN  IF NormalizeTopRaises(top.events, sm, e)
             THEN [raised |-> TRUE, script |-> NoFile]
             ELSE LET te == NormalizeTop(top.events, sm, e)
                      iv == EnglishIntervals(te, e)
                  IN  IF BottomRaises(bottom.events, iv, e)
                      THEN [raised |-> TRUE, script |-> NoFile]
                      ELSE LET r == SanitizeAndMapBottom(bottom.events, bottom.styles, iv, e)
                           IN  [raised |-> FALSE,
                                script |-> [state |-> "written",
                                            styles |-> MasterStyles \cup (r.kept \cap bottom.styles),
                                            events |-> te \o r.events]]

\* the file left by a write that failed after the file was opened
PartialFile == [state |-> "partial", styles |-> {}, events |-> <<>>]

\* the subtitle pairs of the two jobs: the end-to-end scenario, a track of
\* signs, a bottom file with a truncated line, an unreadable top file
PairJobs ==
    {[top |-> File(TRUE, {"Default", "Italics"},
                   <<Ev("Dialogue", T(0), T(2000), "Default", "", Hello),
                     Ev("Dialogue", T(0), T(2000), "Default", "", World)>>),
      bottom |-> File(TRUE, {"Sub-CN"}, PlainBottom)],
     [top |-> File(TRUE, TopStyles, <<Ev("Dialogue", T(1000), T(3000), "Signs", "", PosTop)>>),
      bottom |-> File(TRUE, BottomStyles,
                      <<Ev("Dialogue", T(2000), T(2500), "Sign", "", PosTop)>>)],
     [top |-> File(TRUE, {"Default", "Italics"},
                   <<Ev("Dialogue", T(0), T(2000), "Default", "", Hello)>>),
      bottom |-> File(TRUE, {"Sub-CN"}, PlainBottom \o <<ShortLine>>)],
     [top |-> File(FALSE, {}, <<>>),
      bottom |-> File(TRUE, {"Sub-CN"}, PlainBottom)]}

\* how the write of line 465 goes for a call
WriteOutcomes == {"written", "open fails", "write fails"}

InitPair ==
    /\ MergeIdle
    /\ CallIdle
    /\ BatchIdle
    /\ \E e \in {"merger", "burner"}, v1 \in Videos, v2 \in Videos,
          j1 \in PairJobs, j2 \in PairJobs, w1 \in WriteOutcomes, w2 \in WriteOutcomes :
        /\ v1 # v2
        /\ pair_calls = << [eng |-> e, video |-> v1, top |-> j1.top,
                            bottom |-> j1.bottom, io |-> w1],
                           [eng |-> e, video |-> v2, top |-> j2.top,
                            bottom |-> j2.bottom, io |-> w2] >>
    /\ pair_pc = <<"enter", "enter">>
    /\ pair_merged = <<NoFile, NoFile>>
    /\ disk = [st \in Stems |-> NoFile]
    /\ pair_ret = <<"-", "-">>

\* lines 397-463 of call c: everything up to the assembled script is local
PairCompute(c) ==
    /\ pair_pc[c] = "enter"
    /\ LET m == MergedScript(pair_calls[c].eng, pair_calls[c].top, pair_calls[c].bottom)
       IN  IF m.raised
           THEN /\ pair_pc' = [pair_pc EXCEPT ![c] = "except"]
                /\ UNCHANGED pair_merged
           ELSE /\ pair_pc' = [pair_pc EXCEPT ![c] = "write"]
                /\ pair_merged' = [pair_merged EXCEPT ![c] = m.script]
    /\ UNCHANGED <<pair_calls, disk, pair_ret>>
    /\ UNCHANGED outside_pair

\* line 465, first half: write_text opens the file, which creates or empties it
PairOpen(c) ==
    /\ pair_pc[c] = "write"
    /\ IF pair_calls[c].io = "open fails"
       THEN /\ pair_pc' = [pair_pc EXCEPT ![c] = "except"]
            /\ UNCHANGED disk
       ELSE /\ pair_pc' = [pair_pc EXCEPT ![c] = "opened"]
            /\ disk' = [disk EXCEPT ![OutPath(pair_calls[c].video)] = PartialFile]
    /\ UNCHANGED <<pair_calls, pair_merged, pair_ret>>
    /\ UNCHANGED outside_pair

\* line 465, second half: the text is written
PairWrite(c) ==
    /\ pair_pc[c] = "opened"
    /\ IF pair_calls[c].io = "write fails"
       THEN /\ pair_pc' = [pair_pc EXCEPT ![c] = "except"]
            /\ UNCHANGED disk
       ELSE /\ pair_pc' = [pair_pc EXCEPT ![c] = "return"]
            /\ disk' = [disk EXCEPT ![OutPath(pair_calls[c].video)] = pair_merged[c]]
    /\ UNCHANGED <<pair_calls, pair_merged, pair_ret>>
    /\ UNCHANGED outside_pair

\* lines 466-467
PairReturn(c) ==
    /\ pair_pc[c] = "return"
    /\ pair_ret' = [pair_ret EXCEPT ![c] = OutPath(pair_calls[c].video)]
    /\ pair_pc' = [pair_pc EXCEPT ![c] = "done"]
    /\ UNCHANGED <<pair_calls, pair_merged, disk>>
    /\ UNCHANGED outside_pair

\* lines 469-471
PairExcept(c) ==
    /\ pair_pc[c] = "except"
    /\ pair_ret' = [pair_ret EXCEPT ![c] = "None"]
    /\ pair_pc' = [pair_pc EXCEPT ![c] = "done"]
    /\ UNCHANGED <<pair_calls, pair_merged, disk>>
    /\ UNCHANGED outside_pair

NextPair ==
    \/ \E c \in {1, 2} : PairCompute(c)
    \/ \E c \in {1, 2} : PairOpen(c)
    \/ \E c \in {1, 2} : PairWrite(c)
    \/ \E c \in {1, 2} : PairReturn(c)
    \/ \E c \in {1, 2} : PairExcept(c)

SpecPair == InitPair /\ [][NextPair]_vars

\* ================================================================ claims
AfterTop == pc \in {"intervals", "bottom", "write", "return"} \/ (pc = "done" /\ result = "path")
AfterBottom == pc \in {"write", "return"} \/ (pc = "done" /\ result = "path")
Roles == {"Top-Primary", "Top-Secondary"}
BottomSlots == {"Bottom-Primary-Normal", "Bottom-Primary-Raised", "Bottom-Secondary"}

\* C1: after top normalization every output event resolves to the top half:
\* its style is Top-Primary or Top-Secondary, or its text carries explicit
\* positioning that passes the frame-half test.
C1_TopHalfInvariant ==
    (eng = "merger" /\ AfterTop) =>
        \A i \in 1..Len(top_events) :
            \/ top_events[i].style \in Roles
            \/ /\ HasExplicitPositioning(top_events[i].text)
               /\ IsTopAligned(top_events[i].text)

\* C2: among the normalized top events of one identical (start, end)
\* interval at most one Dialogue event has style Top-Primary and at most one
\* has style Top-Secondary; the other events of that role are Comment lines.
C2_OneDialoguePerRoleAndBucket ==
    AfterTop =>
        \A i, j \in 1..Len(top_events) :
            ( /\ i # j
              /\ Key(top_events[i]) = Key(top_events[j])
              /\ top_events[i].style \in Roles
              /\ top_events[i].style = top_events[j].style )
            => (top_events[i].kind = "Comment" \/ top_events[j].kind = "Comment")

\* two Dialogue lines of one role and one interval went in, one came out as
\* Dialogue and the other as Comment
C2_Witness ==
    /\ AfterTop
    /\ \A k \in 1..Len(events1) : events1[k].kind = "Dialogue"
    /\ \E i, j \in 1..Len(top_events) :
        /\ i < j
        /\ Key(top_events[i]) = Key(top_events[j])
        /\ top_events[i].style = "Top-Primary" /\ top_events[j].style = "Top-Primary"
        /\ top_events[i].kind = "Dialogue" /\ top_events[j].kind = "Comment"

\* C3: any two distinct Dialogue events of the normalized top track that have
\* the same role style do not overlap in time.
C3_NoSameRoleOverlap ==
    (eng = "merger" /\ AfterTop) =>
        \A i, j \in 1..Len(top_events) :
            ( /\ i # j
              /\ top_events[i].kind = "Dialogue" /\ top_events[j].kind = "Dialogue"
              /\ top_events[i].style \in Roles
              /\ top_events[i].style = top_events[j].style )
            => ~(Max(StartMs(top_events[i]), StartMs(top_events[j]))
                    < Min(EndMs(top_events[i]), EndMs(top_events[j])))

\* the interval of cue p overlaps a recorded top-track interval
HitsTop(p) ==
    \E k \in 1..Len(english_intervals) :
        Max(StartMs(p), english_intervals[k][1]) < Min(EndMs(p), english_intervals[k][2])

C5_EmbeddedEngineSameRule ==
    (eng = "burner" /\ AfterBottom) =>
        \A i \in 1..Len(events2) :
            HasExplicitPositioning(events2[i].text) =>
                bottom_events[i].text =
                    SanitizeAndMapBottom(events2, styles2, english_intervals, "merger").events[i].text

\* a processable style other than top, empty Effect, no karaoke or template
\* content, no explicit positioning
IsPlainBottom(p) ==
    /\ Casefold(p.style) \in {"sub-cn", "default"}
    /\ p.effect = ""
    /\ ~HasKaraokeHead(p.text)
    /\ \A k \in 1..Len(p.text) : p.text[k].lit \notin TemplateLits
    /\ ~HasExplicitPositioning(p.text)

\* C6: a plain bottom cue is emitted as Bottom-Primary-Raised iff its interval
\* overlaps a recorded top interval and as Bottom-Primary-Normal otherwise;
\* abutting intervals do not overlap.
C6_RaisedIffOverlap ==
    AfterBottom =>
        \A i \in 1..Len(events2) :
            IsPlainBottom(events2[i]) =>
                bottom_events[i].style =
                    IF HitsTop(events2[i]) THEN "Bottom-Primary-Raised"
                    ELSE "Bottom-Primary-Normal"

\* one plain cue inside the top interval was raised and one plain cue that
\* starts exactly where the top interval ends was not
C6_Witness ==
    /\ AfterBottom
    /\ \E i, j \in 1..Len(events2), k \in 1..Len(english_intervals) :
        /\ IsPlainBottom(events2[i]) /\ IsPlainBottom(events2[j])
        /\ bottom_events[i].style = "Bottom-Primary-Raised"
        /\ StartMs(events2[j]) = english_intervals[k][2]
        /\ bottom_events[j].style = "Bottom-Primary-Normal"

\* the \k tags of a text, in order
KTags(text) == LET IsK(tg) == tg.t = "k" IN SelectSeq(AllTags(text), IsK)

\* C7: a bottom event whose text contains a karaoke tag \k<N> keeps all its
\* \k tags and is never given a Bottom-* style.
C7_KaraokeUntouched ==
    (eng = "merger" /\ AfterBottom) =>
        \A i \in 1..Len(events2) :
            KTags(events2[i].text) # <<>> =>
                /\ KTags(bottom_events[i].text) = KTags(events2[i].text)
                /\ bottom_events[i].style \notin BottomSlots

\* the input of the end-to-end scenario
IsScenario ==
    /\ first_sub.readable /\ second_sub.readable
    /\ first_sub.styles = {"Default", "Italics"}
    /\ Len(first_sub.events) = 2
    /\ \A i \in 1..2 :
        /\ first_sub.events[i].nf = EventFields
        /\ first_sub.events[i].kind = "Dialogue"
        /\ first_sub.events[i].style = "Default"
        /\ first_sub.events[i].start = T(0) /\ first_sub.events[i].end = T(2000)
        /\ ~HasExplicitPositioning(first_sub.events[i].text)
    /\ Len(second_sub.events) = 1
    /\ second_sub.events[1].nf = EventFields
    /\ second_sub.events[1].kind = "Dialogue"
    /\ second_sub.events[1].style = "Sub-CN"
    /\ second_sub.events[1].start = T(1000) /\ second_sub.events[1].end = T(1500)
    /\ second_sub.events[1].text = Hello

Brief(e) == <<e.kind, e.style, StartMs(e), EndMs(e)>>

\* C8: for the end-to-end scenario the merged script holds exactly a Dialogue
\* Top-Primary line at [0,2000), a Comment Top-Primary line at [0,2000) and a
\* Dialogue Bottom-Primary-Raised line at [1000,1500).
C8_EndToEnd ==
    (IsScenario /\ pc = "done" /\ result = "path") =>
        /\ out_file.state = "written"
        /\ [i \in 1..Len(out_file.events) |-> Brief(out_file.events[i])] =
              << <<"Dialogue", "Top-Primary", 0, 2000>>,
                 <<"Comment", "Top-Primary", 0, 2000>>,
                 <<"Dialogue", "Bottom-Primary-Raised", 1000, 1500>> >>

C8_Witness == IsScenario /\ pc = "done" /\ result = "path" /\ Len(out_file.events) = 3

IsMalformed(e) == e.nf < EventFields \/ AssTimeRaises(e.start) \/ AssTimeRaises(e.end)
MalformedLines(f) == Cardinality({i \in 1..Len(f.events) : IsMalformed(f.events[i])})

\* C9: when exactly one event line of the two inputs is malformed and every
\* other line is well formed, no line makes the merge fail.
C9_OneBadLineTolerated ==
    ( /\ eng = "merger"
      /\ first_sub.readable /\ second_sub.readable
      /\ MalformedLines(first_sub) + MalformedLines(second_sub) = 1 )
    => exc # "LineError"

\* C10: a call ends with the output path, the whole script written, or with
\* None, and then it has created or modified no output file.
C10_PathOrNoneWithoutFile ==
    pc = "done" =>
        \/ result = "path" /\ out_file.state = "written"
        \/ result = "None" /\ out_file = NoFile

\* the number of Comment lines of a track with the given start, end and text
CommentCopies(track, s, e, text) ==
    Cardinality({k \in 1..Len(track) :
        /\ track[k].kind = "Comment"
        /\ track[k].start = s /\ track[k].end = e /\ track[k].text = text})

\* C11: every Comment line of the top track and of the bottom track is found
\* in the merged output with the same start, end and text, as often as it
\* occurs in the input.
C11_CommentsRoundTrip ==
    AfterBottom =>
        /\ \A i \in 1..Len(events1) :
            events1[i].kind = "Comment" =>
                CommentCopies(top_events, events1[i].start, events1[i].end, events1[i].text)
                    >= CommentCopies(events1, events1[i].start, events1[i].end, events1[i].text)
        /\ \A i \in 1..Len(events2) :
            events2[i].kind = "Comment" =>
                /\ bottom_events[i].kind = "Comment"
                /\ bottom_events[i].start = events2[i].start
                /\ bottom_events[i].end = events2[i].end
                /\ bottom_events[i].text = events2[i].text

\* C12: every style name referenced by an event of the written script is in
\* the style table of the script: it is a master style, or the original style
\* that the source file of the event defined.
C12_ReferencedStylesDefined ==
    (pc = "done" /\ result = "path") =>
        /\ \A i \in 1..Len(top_events) :
            \/ top_events[i].style \in MasterStyles
            \/ top_events[i].style \in styles1 => top_events[i].style \in out_file.styles
        /\ \A i \in 1..Len(bottom_events) :
            \/ bottom_events[i].style \in MasterStyles
            \/ bottom_events[i].style \in styles2 => bottom_events[i].style \in out_file.styles

\* a processable style, empty Effect, no karaoke tag and no template text
IsProcessableDialogue(p) ==
    /\ Casefold(p.style) \in processable
    /\ p.effect = ""
    /\ KTags(p.text) = <<>>
    /\ \A k \in 1..Len(p.text) : p.text[k].lit \notin TemplateLits

\* C13: a bottom cue of a processable style with empty Effect and no karaoke
\* or template content whose text begins with {\an8}, or whose style
\* case-folds to top, is emitted with style Bottom-Secondary.
C13_TopLikeIsBottomSecondary ==
    (eng = "merger" /\ AfterBottom) =>
        \A i \in 1..Len(events2) :
            ( /\ IsProcessableDialogue(events2[i])
              /\ StartsWithAn8(events2[i].text) \/ Casefold(events2[i].style) = "top" )
            => bottom_events[i].style = "Bottom-Secondary"

\* C14: the time text made by _ms_to_ass_time from a millisecond value packed
\* from (h, m, s, cs) is read back by _ass_time_to_ms as the same value.
C14_TimeRoundTrip ==
    (fn = "_ms_to_ass_time" /\ fn_pc \in {"done", "raised"}) =>
        fn_ret = <<fn_args[1]>>

\* 11:59:59.99 went through the codec: two-digit hours and every field at its
\* largest value
C14_Witness ==
    /\ fn = "_ms_to_ass_time" /\ fn_pc = "done"
    /\ fn_args = <<43199990>>
    /\ time_str = <<"1", "1", ":", "5", "9", ":", "5", "9", ".", "9", "9">>
    /\ fn_ret = <<43199990>>

\* C15: _overlaps gives the same answer when the two intervals are exchanged,
\* and intervals that only touch at an end point do not overlap:
\* overlaps(0, 10, 10, 20) is false.
C15_OverlapsSymmetricHalfOpen ==
    (fn = "_overlaps" /\ fn_pc = "done") =>
        /\ fn_ret = <<Overlaps(fn_args[3], fn_args[4], fn_args[1], fn_args[2])>>
        /\ fn_args[2] = fn_args[3] => fn_ret = <<FALSE>>
        /\ fn_args = <<0, 10, 10, 20>> => fn_ret = <<FALSE>>

\* the touching pair of the claim was called and found not to overlap
C15_Witness ==
    /\ fn = "_overlaps" /\ fn_pc = "done"
    /\ fn_args = <<0, 10, 10, 20>> /\ fn_ret = <<FALSE>>

\* a start or end of cue q lies strictly inside the interval of cue p
Straddles(p, q) ==
    \/ StartMs(p) < StartMs(q) /\ StartMs(q) < EndMs(p)
    \/ StartMs(p) < EndMs(q) /\ EndMs(q) < EndMs(p)

\* C19: in the list left by the two splitting passes no secondary-role cue has
\* a start or end of a primary-role cue strictly inside its interval, and no
\* primary-role cue has a start or end of a secondary-role cue strictly inside
\* its interval.
C19_NoStraddleAfterSplitting ==
    AfterTop =>
        LET ev2 == SplitPasses(events1, style_map1)
            RoleOf(p) == MapGet(style_map1, p.style, "None")
        IN  \A i, j \in 1..Len(ev2) :
                ( \/ RoleOf(ev2[i]) = "Top-Secondary" /\ RoleOf(ev2[j]) = "Top-Primary"
                  \/ RoleOf(ev2[i]) = "Top-Primary" /\ RoleOf(ev2[j]) = "Top-Secondary" )
                => ~Straddles(ev2[i], ev2[j])

\* the boundary points strictly inside the interval of a cue
InteriorPoints(ev, points) == {p \in points : StartMs(ev) < p /\ p < EndMs(ev)}

\* the number of lines the claim promises for one input cue
PiecesOf(ev, points, role) ==
    IF MapGet(SplitStyleMap, ev.style, "None") = role
    THEN Cardinality(InteriorPoints(ev, points)) + 1
    ELSE 1

RECURSIVE PiecesBefore(_, _, _, _)
\* the number of output lines that precede the lines of input cue i
PiecesBefore(evs, i, points, role) ==
    IF i = 1 THEN 0
    ELSE PiecesBefore(evs, i - 1, points, role) + PiecesOf(evs[i - 1], points, role)

\* C20: when every cue has start < end, the lines returned by
\* _split_events_on_points are, cue by cue and in input order: the cue itself
\* if it is of another role or has no boundary point strictly inside, and
\* otherwise sub-cues that begin at its start, end at its end, follow one
\* another without gap or overlap in time order, are cut exactly at the
\* boundary points strictly inside the cue, and differ from the cue in start
\* and end only.
C20_SplitTilesExactly ==
    ( /\ fn = "_split_events_on_points" /\ fn_pc = "done"
      /\ \A i \in 1..Len(fn_args[1]) : StartMs(fn_args[1][i]) < EndMs(fn_args[1][i]) )
    => LET evs == fn_args[1]
           pts == fn_args[2]
           role == fn_args[3]
           out == fn_ret[1]
       IN  /\ Len(out) = PiecesBefore(evs, Len(evs) + 1, pts, role)
           /\ \A i \in 1..Len(evs) :
                LET n == PiecesOf(evs[i], pts, role)
                    at == PiecesBefore(evs, i, pts, role)
                IN  IF n = 1 THEN out[at + 1] = evs[i]
                    ELSE /\ StartMs(out[at + 1]) = StartMs(evs[i])
                         /\ EndMs(out[at + n]) = EndMs(evs[i])
                         /\ \A k \in 1..n :
                              /\ StartMs(out[at + k]) < EndMs(out[at + k])
                              /\ [out[at + k] EXCEPT !.start = evs[i].start,
                                                     !.end = evs[i].end] = evs[i]
                         /\ \A k \in 1..(n - 1) :
                              /\ EndMs(out[at + k]) = StartMs(out[at + k + 1])
                              /\ EndMs(out[at + k]) \in InteriorPoints(evs[i], pts)

\* a secondary cue [0,3000) was cut at 500, 1000 and 1500 into four lines and
\* the primary cue after it came back as it was
C20_Witness ==
    /\ fn = "_split_events_on_points" /\ fn_pc = "done"
    /\ fn_args[3] = "Top-Secondary"
    /\ fn_args[2] = {500, 1000, 1500, 3000}
    /\ Len(fn_args[1]) = 2
    /\ fn_args[1][1] = Ev("Dialogue", T(0), T(3000), "Italics", "", Hello)
    /\ fn_args[1][2] = Ev("Dialogue", T(1000), T(2000), "Default", "", Hello)
    /\ Len(fn_ret[1]) = 5
    /\ [k \in 1..4 |-> Key(fn_ret[1][k])] =
          << <<0, 500>>, <<500, 1000>>, <<1000, 1500>>, <<1500, 3000>> >>
    /\ fn_ret[1][5] = fn_args[1][2]

\* a call of cancel() has been made and has returned
CancelReturned == cancel_calls > 0 /\ cancel_pc = "idle"

\* C17: once cancel() has been called, the worker never sits in process.wait()
\* for a transcode process that is still running: the process of the current
\* job, started before or after the flag was set, has been killed.
C17_CancelKillsProcess ==
    CancelReturned => ~(worker_pc = "wait" /\ Running(job))

MergeFailed(i) ==
    i \in DOMAIN merge_result /\ merge_result[i] \in {"None", "None, partial file"}

FinalStatuses == {"Merge Failed", "Done", "Failed", "Error", "Cancelled"}

\* C18: a job whose merge returned the failure value is marked Merge Failed
\* and gets no transcode process; when the run ends without cancellation every
\* job was started and processed; and after a merge failure the worker goes on
\* until, unless the batch is cancelled, every later job has its final status.
C18_MergeFailureSkipsOneJob ==
    /\ [](\A i \in 1..total_jobs :
            MergeFailed(i) => status[i] = "Merge Failed" /\ procs[i] = "none")
    /\ []((worker_pc = "finished" /\ ~is_cancelled) =>
            \A j \in 1..total_jobs :
                /\ status[j] \in FinalStatuses
                /\ CallsMerge(mode) => merge_result[j] # "-")
    /\ \A i \in 1..MaxJobs :
            MergeFailed(i) ~>
                (is_cancelled \/ \A j \in (i + 1)..total_jobs : status[j] \in FinalStatuses)

\* the merge of the first of two jobs failed, no process was started for it,
\* and the second job was transcoded to the end
C18_Witness ==
    /\ worker_pc = "finished" /\ ~is_cancelled
    /\ total_jobs = 2
    /\ merge_result[1] = "None" /\ status[1] = "Merge Failed" /\ procs[1] = "none"
    /\ merge_result[2] = "path" /\ status[2] = "Done" /\ procs[2] = "exited 0"

\* MergedScript is the same function of the input files as the actions
\* ReadParse .. WriteOutput of the single call (an invariant of Spec)
MergedScriptAgrees ==
    pc = "done" =>
        LET m == MergedScript(eng, first_sub, second_sub)
        IN  IF m.raised THEN result = "None" /\ out_file = NoFile /\ exc # "-"
            ELSE \/ result = "path" /\ out_file = m.script /\ exc = "-"
                 \/ result = "None" /\ exc = "OSError" /\ out_file \in {NoFile, PartialFile}

\* what call c returns, and the file it leaves, when it runs alone
AloneReturn(c) ==
    LET m == MergedScript(pair_calls[c].eng, pair_calls[c].top, pair_calls[c].bottom)
    IN  IF m.raised \/ pair_calls[c].io # "written" THEN "None"
        ELSE pair_calls[c].video.stem

AloneFile(c) ==
    LET m == MergedScript(pair_calls[c].eng, pair_calls[c].top, pair_calls[c].bottom)
    IN  IF m.raised \/ pair_calls[c].io = "open fails" THEN NoFile
        ELSE IF pair_calls[c].io = "write fails" THEN PartialFile
        ELSE m.script

BothDone == pair_pc = <<"done", "done">>

\* C16: two merge calls for videos of different stems, in any interleaving of
\* their steps, return what they return alone and leave under their own path
\* the file they leave alone; the two paths differ.
C16_CallsDoNotInterfere ==
    (BothDone /\ pair_calls[1].video.stem # pair_calls[2].video.stem) =>
        /\ OutPath(pair_calls[1].video) # OutPath(pair_calls[2].video)
        /\ \A c \in {1, 2} :
            /\ pair_ret[c] = AloneReturn(c)
            /\ disk[pair_calls[c].video.stem] = AloneFile(c)

\* both calls wrote a script, the two scripts differ, and each file holds the
\* script of its own call
C16_Witness ==
    /\ BothDone
    /\ pair_calls[1].video.stem # pair_calls[2].video.stem
    /\ pair_ret[1] # "None" /\ pair_ret[2] # "None"
    /\ pair_merged[1] # pair_merged[2]
    /\ disk[pair_calls[1].video.stem] = pair_merged[1]
    /\ disk[pair_calls[2].video.stem] = pair_merged[2]

\* the tags of a text other than \org, in reading order
NonOrgTags(text) ==
    LET NotOrg(tg) == LowerTag(tg.t) # "org" IN SelectSeq(AllTags(text), NotOrg)

\* the glyph runs of a text, in reading order
GlyphRuns(text) == LET IsRun(item) == ~item.blk IN SelectSeq(text, IsRun)

\* C21: in top normalization a cue whose explicit position already resolves
\* to the top half loses its \org tags and nothing else: every other tag of
\* its text, also one that shares an override block with an \org tag, and
\* every glyph run is still there, in the same order.
C21_OnlyOrgRemoved ==
    (eng = "merger" /\ AfterTop) =>
        \A i \in 1..Len(events1) :
            (HasExplicitPositioning(events1[i].text) /\ IsTopAligned(events1[i].text)) =>
                \E j \in 1..Len(top_events) :
                    /\ top_events[j].style = events1[i].style
                    /\ AllTags(top_events[j].text) = NonOrgTags(events1[i].text)
                    /\ GlyphRuns(top_events[j].text) = GlyphRuns(events1[i].text)

\* the text holds a \pos, \move, \org or \an<N> tag at any place of an
\* override block
CarriesPositioningTag(text) ==
    \E k \in 1..Len(AllTags(text)) : IsPositioningHead(AllTags(text)[k])

\* C22: a top-track cue whose text carries a \pos, \move, \org or \an<N> tag,
\* wherever the tag stands in its override block, is explicit: it is never
\* demoted to a Comment line by deduplication and its style is never
\* rewritten to Top-Primary or Top-Secondary.
C22_TagAnywhereIsExplicit ==
    AfterTop =>
        \A j \in 1..Len(top_events) :
            CarriesPositioningTag(top_events[j].text) =>
                /\ top_events[j].style \notin Roles
                /\ top_events[j].kind = "Comment" =>
                      \E i \in 1..Len(events1) :
                          /\ events1[i].kind = "Comment"
                          /\ CarriesPositioningTag(events1[i].text)

\* the intervals have been recorded
AfterIntervals == pc \in {"bottom", "write", "return"} \/ (pc = "done" /\ result = "path")

\* a normalized top event that occupies the top of the frame: a Dialogue line
\* of a role style, or one whose text carries top-resolved positioning
OccupiesTop(p) ==
    /\ p.kind = "Dialogue"
    /\ \/ p.style \in Roles
       \/ CarriesPositioningTag(p.text) /\ IsTopAligned(p.text)

\* C23: the recorded top-track intervals are exactly the (start, end) of the
\* normalized top events that are Dialogue lines and have style Top-Primary
\* or Top-Secondary or carry explicit positioning that resolves to the top
\* half, in the order of the events; Comment lines and Dialogue lines of
\* unmapped styles without such positioning contribute none.
C23_RecordedIntervalsExact ==
    (eng = "merger" /\ AfterIntervals) =>
        LET occ == SelectSeq(top_events, OccupiesTop)
        IN  english_intervals = [k \in 1..Len(occ) |-> <<StartMs(occ[k]), EndMs(occ[k])>>]

\* the number of Dialogue lines of an event list that name the style
DialogueTally(events, n) ==
    Cardinality({i \in 1..Len(events) : events[i].kind = "Dialogue" /\ events[i].style = n})

\* C24: in the map returned by _create_top_style_map every style of the style
\* table named exactly Default is Top-Primary and every one named Italics,
\* On Top Italic, On Top or OS is Top-Secondary; when a name matched nothing
\* else is mapped; when none matched the map is made from the Dialogue lines
\* alone: a style with the largest tally is Top-Primary, and if a second
\* style was tallied, one with the largest tally among the others is
\* Top-Secondary, so that no style has both roles and at most two are mapped.
C24_StyleMapByNameElseByUsage ==
    (fn = "_create_top_style_map" /\ fn_pc = "done") =>
        LET tbl == fn_args[1]
            evs == fn_args[2]
            map == fn_ret[1]
            matched == tbl \cap {"Default", "Italics", "On Top Italic", "On Top", "OS"}
            tallied == {evs[i].style : i \in {j \in 1..Len(evs) : evs[j].kind = "Dialogue"}}
        IN  /\ \A n \in DOMAIN map : map[n] \in Roles
            /\ "Default" \in tbl => ("Default" \in DOMAIN map /\ map["Default"] = "Top-Primary")
            /\ \A n \in tbl \cap {"Italics", "On Top Italic", "On Top", "OS"} :
                    n \in DOMAIN map /\ map[n] = "Top-Secondary"
            /\ matched # {} => DOMAIN map = matched
            /\ matched = {} =>
                /\ DOMAIN map \subseteq tallied
                /\ Cardinality(DOMAIN map) = Min(2, Cardinality(tallied))
                /\ tallied # {} =>
                    \E p \in DOMAIN map :
                        /\ map[p] = "Top-Primary"
                        /\ \A o \in tallied : DialogueTally(evs, p) >= DialogueTally(evs, o)
                        /\ \A sec \in DOMAIN map \ {p} :
                            /\ map[sec] = "Top-Secondary"
                            /\ \A o \in tallied \ {p} :
                                  DialogueTally(evs, sec) >= DialogueTally(evs, o)

\* no name of the table matched; of three tallied styles the one with two
\* Dialogue lines became Top-Primary and the next one Top-Secondary, and the
\* third, like the style of the Comment line, was left out
C24_Witness ==
    /\ fn = "_create_top_style_map" /\ fn_pc = "done"
    /\ fn_args[1] = {"Main", "Alt", "Third"}
    /\ Len(fn_args[2]) = 4
    /\ [i \in 1..4 |-> <<fn_args[2][i].kind, fn_args[2][i].style>>] =
          << <<"Dialogue", "Third">>, <<"Dialogue", "Alt">>,
             <<"Dialogue", "Main">>, <<"Dialogue", "Alt">> >>
    /\ DOMAIN fn_ret[1] = {"Alt", "Third"}
    /\ fn_ret[1]["Alt"] = "Top-Primary" /\ fn_ret[1]["Third"] = "Top-Secondary"

\* the reference transform: the alignment code moved into the target row of
\* the numeric keypad, its column kept
RefAlign(n, to_top) == IF to_top THEN ((n - 1) % 3) + 7 ELSE ((n - 1) % 3) + 1

\* the reference transform of a y coordinate
RefY(y, to_top) ==
    IF to_top /\ y > 540 THEN y - 540
    ELSE IF ~to_top /\ y < 540 THEN y + 540
    ELSE y

\* the reference transform of one tag
RefTag(tg, to_top) ==
    IF tg.t = "an" THEN [tg EXCEPT !.a = <<RefAlign(tg.a[1], to_top)>>]
    ELSE IF tg.t = "pos" THEN [tg EXCEPT !.a = <<tg.a[1], RefY(tg.a[2], to_top)>>]
    ELSE IF tg.t = "move"
         THEN [tg EXCEPT !.a = <<tg.a[1], RefY(tg.a[2], to_top), tg.a[3], RefY(tg.a[4], to_top)>>
                                 \o SubSeq(tg.a, 5, Len(tg.a))]
    ELSE tg

\* C25: the text returned by _force_vertical_region is the given text with
\* every \an<N> moved into row 7-9 (to top) or 1-3 (to bottom) in its column,
\* every \pos(x,y) with y - 540 iff to top and y > 540, y + 540 iff to bottom
\* and y < 540, and x as it was, and every \move with that rule applied to y1
\* and to y2 and x1, x2 and the trailing parameters as they were; nothing
\* else is changed.
C25_ForceEqualsReference ==
    (fn = "_force_vertical_region" /\ fn_pc = "done") =>
        LET text == fn_args[1]
            out == fn_ret[1]
        IN  /\ Len(out) = Len(text)
            /\ \A i \in 1..Len(text) :
                /\ out[i].blk = text[i].blk
                /\ out[i].lit = text[i].lit
                /\ Len(out[i].tags) = Len(text[i].tags)
                /\ \A j \in 1..Len(text[i].tags) :
                      out[i].tags[j] = RefTag(text[i].tags[j], fn_args[2])

\* output event q can come from input event p: it lies inside the interval
\* of p, has its glyphs, and has its style or the role its style maps to
ComesFrom(q, p) ==
    /\ StartMs(p) <= StartMs(q) /\ EndMs(q) <= EndMs(p)
    /\ GlyphRuns(q.text) = GlyphRuns(p.text)
    /\ q.style \in {p.style, MapGet(style_map1, p.style, p.style)}

\* C27: top normalization loses no cue: every input event, also one with
\* start = end whose role is split at the points of the other role, yields at
\* least one output event, so the output has at least as many events as the
\* input.
C27_NoCueLost ==
    AfterTop =>
        /\ Len(top_events) >= Len(events1)
        /\ \A i \in 1..Len(events1) :
              \E j \in 1..Len(top_events) : ComesFrom(top_events[j], events1[i])

\* C28: deduplication never hides all visible text of a role: whenever a
\* bucket of one exact interval holds, after splitting, a Dialogue line of
\* the primary (secondary) role without explicit positioning, the output
\* holds exactly one Dialogue event of style Top-Primary (Top-Secondary) for
\* that interval, also when the first cue of that role in the bucket is a
\* Comment line.
C28_OneVisibleLinePerRole ==
    AfterTop =>
        LET ev2 == SplitPasses(events1, style_map1)
        IN  \A i \in 1..Len(ev2) :
                ( /\ ev2[i].kind = "Dialogue"
                  /\ ~HasExplicitPositioning(ev2[i].text)
                  /\ MapGet(style_map1, ev2[i].style, "None") \in Roles )
                => Cardinality({j \in 1..Len(top_events) :
                        /\ top_events[j].kind = "Dialogue"
                        /\ top_events[j].style = MapGet(style_map1, ev2[i].style, "None")
                        /\ Key(top_events[j]) = Key(ev2[i])}) = 1

\* C29: in the output of sub-merger.py no bottom-track event carries a
\* positioning tag that resolves to the top half, with coordinates on the
\* canvas, while its interval overlaps a recorded top-track interval.
C29_NoTopResolvedBottomInCollision ==
    (eng = "merger" /\ AfterBottom) =>
        \A i \in 1..Len(bottom_events) :
            ( /\ CarriesPositioningTag(bottom_events[i].text)
              /\ IsTopAligned(bottom_events[i].text)
              /\ \A k \in 1..Len(AllTags(bottom_events[i].text)) :
                    LET tg == AllTags(bottom_events[i].text)[k]
                    IN  /\ (tg.t = "pos" /\ Len(tg.a) >= 2) =>
                              (0 <= tg.a[2] /\ tg.a[2] <= 1080)
                        /\ (tg.t = "move" /\ Len(tg.a) >= 4) =>
                              (0 <= tg.a[2] /\ tg.a[2] <= 1080 /\ 0 <= tg.a[4] /\ tg.a[4] <= 1080) )
            => ~HitsTop(bottom_events[i])

\* the loop iteration of job j has ended
JobEnded(j) == job > j \/ worker_pc = "finished"

\* C26: the worker deletes every temporary merged script it obtained: for a
\* job whose merge returned a path, however the job ended, the file is gone
\* when the next job starts and when batch_finished is emitted, unless the
\* deletion itself raised.
C26_TempScriptDeleted ==
    \A j \in 1..total_jobs :
        (merge_result[j] = "path" /\ JobEnded(j) /\ j \notin unlink_failed)
        => j \notin temp_files

\* a batch of two merged jobs has ended, the first by an exception and the
\* second by cancellation, and neither script is left
C26_Witness ==
    /\ worker_pc = "finished"
    /\ total_jobs = 2
    /\ merge_result = <<"path", "path">>
    /\ status = <<"Error", "Cancelled">>
    /\ unlink_failed = {}
    /\ temp_files = {}

\* the places of the log where the signal sig of job j stands
Emissions(sig, j) ==
    {k \in 1..Len(emitted) : emitted[k].sig = sig /\ emitted[k].job = j}

\* the signal log is well formed: a job is started at most once and finished
\* at most once, with one of the five final texts and after its start; a job
\* starts only after the job before it was finished; batch_finished comes at
\* most once, as the last signal, when every started job was finished
SignalsInOrder ==
    /\ \A j \in 1..total_jobs :
        /\ Cardinality(Emissions("job_started", j)) <= 1
        /\ Cardinality(Emissions("job_finished", j)) <= 1
        /\ \A f \in Emissions("job_finished", j) :
            /\ emitted[f].text \in FinalStatuses
            /\ \E st \in Emissions("job_started", j) : st < f
        /\ \A st \in Emissions("job_started", j) :
            j > 1 => \E f \in Emissions("job_finished", j - 1) : f < st
    /\ Cardinality(Emissions("batch_finished", 0)) <= 1
    /\ \A b \in Emissions("batch_finished", 0) :
        /\ b = Len(emitted)
        /\ \A j \in 1..total_jobs :
              Emissions("job_started", j) # {} => Emissions("job_finished", j) # {}

====
